---- MODULE Spec2Model ----
(***************************************************************************)
(* Model of the upload handlers of the file-storage server:                *)
(*   handlerUploadVideo, random-key variant   (src/src/api/videos.ts)      *)
(*   handlerUploadVideo, orientation variant  (src/unnamed/part_001)       *)
(*   handlerUploadThumbnail, disk and in-memory variants                   *)
(*                                             (src/unnamed/part_000)      *)
(* Every handler is an async function: the code between two awaits runs    *)
(* atomically (one action), and other requests may run at each await.      *)
(***************************************************************************)
EXTENDS Integers, Sequences, FiniteSets, TLC

VARIABLES
  cfg,      \* the deployed configuration: which variant of each handler is routed
  db,       \* record store: video id -> row
  tmp,      \* local temporary filesystem: path -> file contents
  s3,       \* object store: key -> object contents
  req,      \* one record per request slot: the handler's locals and position
  nRandom,  \* number of randomBytes(32) draws made so far
  assets,   \* thumbnail files under cfg.assetsRoot: path -> contents
  videoThumbnails,  \* the in-memory thumbnail map: video id -> Thumbnail
  geometry  \* a call of getVideoAspectRatio's classification: the probed
            \* width and height, and the value returned

vars == <<cfg, db, tmp, s3, req, nRandom, assets, videoThumbnails, geometry>>

----------------------------------------------------------------------------
(* Bounds *)

\* number of request slots (requests that may be in flight together)
NumReq == 2

Req == 1..NumReq

----------------------------------------------------------------------------
(* 32-bit integer arithmetic of the << operator *)

\* x * 2 wrapped to a signed 32-bit integer
Dbl32(x) ==
  IF x >= 2^30 THEN ((x - 2^30) - 2^30) * 2
  ELSE IF x < -(2^30) THEN ((x + 2^30) + 2^30) * 2
  ELSE x * 2

RECURSIVE Shl32(_, _)
\* x << n on signed 32-bit integers
Shl32(x, n) == IF n = 0 THEN x ELSE Shl32(Dbl32(x), n - 1)

\* const MAX_UPLOAD_SIZE = 1 << 30
MAX_UPLOAD_SIZE == Shl32(1, 30)

----------------------------------------------------------------------------
(* Values *)

\* null, where a string, a URL, a record or file contents is expected
Null == "null"
NoUrl == << >>
NoVideo == [userID |-> Null, videoURL |-> NoUrl, thumbnailURL |-> NoUrl]
NoBody == [of |-> 0, form |-> "none"]

\* ids of the rows of the record store, and their owners
Videos == {"v1", "v2"}
OwnerOf(v) == "u1"

\* the :videoId route parameter: absent, a stored id, or an id of no row
NoId == ""
VideoIdParams == Videos \cup {NoId, "vx"}

\* what validateJWT yields for the request's bearer token
BadToken == "invalid"
Tokens == {"u1", "u2", BadToken}

\* sizes of an uploaded file part, around the limit and up to 2^31 - 1
Sizes == {1, MAX_UPLOAD_SIZE, MAX_UPLOAD_SIZE + 1, MAX_UPLOAD_SIZE + (MAX_UPLOAD_SIZE - 1)}

\* frame geometry of an uploaded file; <<0, 0>> is a file with no video stream
NoStream == <<0, 0>>
Dims == {<<1280, 720>>, <<1080, 1920>>, <<640, 480>>}

NoFile == [isFile |-> FALSE, size |-> 0, type |-> "", dims |-> NoStream]
\* const MAX_UPLOAD_SIZE = 10 << 20  (handlerUploadThumbnail)
MAX_THUMBNAIL_SIZE == Shl32(10, 20)

\* the thumbnail form field: absent, or a file of some size and declared type
ThumbnailFiles ==
  {NoFile} \cup
  [isFile : {TRUE}, size : {MAX_THUMBNAIL_SIZE, MAX_THUMBNAIL_SIZE + 1},
   type : {"image/png", "video/mp4", ""}, dims : {NoStream}]

VideoFiles ==
  {NoFile} \cup
  [isFile : {TRUE}, size : Sizes, type : {"video/mp4", "video/quicktime"},
   dims : Dims \cup {NoStream}]

----------------------------------------------------------------------------
(* Paths, as the sequence of their "."-separated pieces *)

\* as tempFilePath, with one staging path for every video id
tempFilePathShared(videoId) == <<"/tmp/upload", "mp4">>

\* path.join("/tmp", `${videoId}.mp4`)
tempFilePath(videoId) == <<"/tmp/" \o videoId, "mp4">>

\* const [ key ] = inputFilePath.split("."); `${key}.processed.mp4`
outputFilePath(inputFilePath) == <<inputFilePath[1], "processed", "mp4">>

\* `${tempFilePath}.processed.mp4`, the second path the handler removes
removedProcessedPath(path) == path \o <<"processed", "mp4">>

Write(fs, p, c) == [q \in DOMAIN fs \cup {p} |-> IF q = p THEN c ELSE fs[q]]
Remove(fs, p) == [q \in DOMAIN fs \ {p} |-> fs[q]]
Exists(fs, p) == p \in DOMAIN fs

\* file contents: whose upload the bytes are, and in which form
Raw(r) == [of |-> r, form |-> "raw"]
Partial(r) == [of |-> r, form |-> "partial"]
FastStart(c) == [of |-> c.of, form |-> "faststart"]

----------------------------------------------------------------------------
(* IEEE-754 binary64 arithmetic, as the JavaScript number operators / - <   *)
(* compute it, on positive values between 2^-FracShift and 2^FracShift.     *)
(* A number is its bits on a fixed binary grid: bit i has weight            *)
(* 2^(FracShift - i).  A double is [m |-> its 53 significant bits,          *)
(* p |-> the grid position of the first of them]; zero is FZero.            *)

\* significand width of a binary64 number
Mant == 53
\* the grid's integer part: values below 2^12
FracShift == 12
\* a quotient is developed DivDigits digits of DigitBits bits each: room for
\* the leading zeros, the 53 significant bits and a guard bit
DigitBits == 6
DivDigits == 15

FZero == [m |-> <<>>, p |-> 0]

\* position of the first 1 bit at or after i, or 0
FirstOne(bits, i) ==
  LET ones == {j \in i..Len(bits) : bits[j] = 1}
  IN  IF ones = {} THEN 0 ELSE CHOOSE j \in ones : \A k \in ones : j <= k

\* bits + 1, for bits that are not all ones
Inc(bits) ==
  LET zeros == {j \in 1..Len(bits) : bits[j] = 0}
      z == CHOOSE j \in zeros : \A k \in zeros : j >= k
  IN  [i \in 1..Len(bits) |-> IF i < z THEN bits[i] ELSE IF i = z THEN 1 ELSE 0]

\* round-to-nearest, ties-to-even, of the grid number bits (+ sticky beyond it)
Round(bits, sticky) ==
  LET L == Len(bits)
      p == FirstOne(bits, 1)
  IN  IF p = 0 THEN FZero
      ELSE
        LET m == [i \in 1..Mant |-> IF p + i - 1 <= L THEN bits[p + i - 1] ELSE 0]
            guard == IF p + Mant <= L THEN bits[p + Mant] ELSE 0
            st == sticky \/ FirstOne(bits, p + Mant + 1) # 0
            up == guard = 1 /\ (st \/ m[Mant] = 1)
            allOnes == \A i \in 1..Mant : m[i] = 1
        IN  IF ~up THEN [m |-> m, p |-> p]
            ELSE IF allOnes
              THEN [m |-> [i \in 1..Mant |-> IF i = 1 THEN 1 ELSE 0], p |-> p - 1]
              ELSE [m |-> Inc(m), p |-> p]

RECURSIVE DivSteps(_, _, _, _)
\* the next n base-2^DigitBits digits of r / B (r < B) appended to acc, and
\* the remainder left
DivSteps(r, B, n, acc) ==
  IF n = 0 THEN [digits |-> acc, rem |-> r]
  ELSE DivSteps((r * 2^DigitBits) % B, B, n - 1,
                Append(acc, (r * 2^DigitBits) \div B))

\* a / b in binary64, for integers 0 < a, b < 2^FracShift
FDiv(a, b) ==
  LET d == DivSteps(a, b * 2^FracShift, DivDigits, <<>>)
      bits == [i \in 1..(DivDigits * DigitBits) |->
                (d.digits[((i - 1) \div DigitBits) + 1]
                   \div 2^(DigitBits - 1 - ((i - 1) % DigitBits))) % 2]
  IN  Round(bits, d.rem # 0)

\* the double x written on the grid 1..L
Expand(x, L) ==
  [i \in 1..L |-> IF x.p # 0 /\ i >= x.p /\ i < x.p + Mant THEN x.m[i - x.p + 1] ELSE 0]

\* a < b for two grid numbers of the same length, compared from bit i on
LexLess(a, b, i) ==
  \E j \in i..Len(a) : a[j] < b[j] /\ \A k \in i..(j - 1) : a[k] = b[k]

\* a - b (a >= b) on the grid: bit i borrows when a's lower bits are below b's
SubBits(a, b) ==
  [i \in 1..Len(a) |->
     (2 + a[i] - b[i] - (IF LexLess(a, b, i + 1) THEN 1 ELSE 0)) % 2]

\* Math.abs(x - y) in binary64
FAbsSub(x, y) ==
  LET L == (IF x.p > y.p THEN x.p ELSE y.p) + Mant
      a == Expand(x, L)
      b == Expand(y, L)
  IN  IF LexLess(a, b, 1) THEN Round(SubBits(b, a), FALSE)
      ELSE Round(SubBits(a, b), FALSE)

\* x < y in binary64 (x, y >= 0)
FLess(x, y) ==
  IF y.p = 0 THEN FALSE
  ELSE IF x.p = 0 THEN TRUE
  ELSE IF x.p # y.p THEN x.p > y.p
  ELSE LexLess(x.m, y.m, 1)

\* the literals 16/9, 9/16 and 0.1
Landscape == FDiv(16, 9)
Portrait == FDiv(9, 16)
Tolerance == FDiv(1, 10)

\* the classification of getVideoAspectRatio for the probed width and height
getVideoAspectRatio(width, height) ==
  LET ratio == FDiv(width, height)
  IN  IF FLess(FAbsSub(ratio, Landscape), Tolerance) THEN "landscape"
      ELSE IF FLess(FAbsSub(ratio, Portrait), Tolerance) THEN "portrait"
      ELSE "other"

----------------------------------------------------------------------------
(* The record store, the object store and the key policies *)

\* the row getVideo returns, or NoVideo when there is none
getVideo(store, videoId) == IF videoId \in DOMAIN store THEN store[videoId] ELSE NoVideo

\* updateVideo writes the whole record it is handed over the row of its id
updateVideo(store, videoId, video) == [store EXCEPT ![videoId] = video]

\* mediaTypeToExt, for the media types that reach it
mediaTypeToExt(mediaType) ==
  CASE mediaType = "video/mp4" -> ".mp4"
    [] mediaType = "image/png" -> ".png"
    [] mediaType = "image/jpeg" -> ".jpg"
    [] OTHER -> ".bin"

\* getAssetDiskPath(cfg, filename): the file of that name under cfg.assetsRoot
getAssetDiskPath(filename) == <<"assetsRoot/", filename>>

\* getAssetUrl(cfg, filename)
getAssetUrl(filename) == <<"http://localhost:", "port", "/assets/", filename>>

\* getInMemoryURL(cfg, videoId)
getInMemoryURL(videoId) == <<"http://localhost:", "port", "/api/thumbnails/", videoId>>

\* a draw of randomBytes(32).toString("base64url"): the n-th draw differs from
\* every earlier one (2^256 values)
randomBytes(n) == "rnd" \o ToString(n)

\* as randomKey, with the random part left out: every file is named "video.mp4"
fixedKey(n, mediaType) == "video" \o mediaTypeToExt(mediaType)

\* `${randomBytes(32).toString("base64url")}${ext}`
randomKey(n, mediaType) == randomBytes(n) \o mediaTypeToExt(mediaType)

\* as orientationKey, with the video id left out: `${aspectRatio}.mp4`
orientationOnlyKey(aspectRatio, videoId) == aspectRatio \o ".mp4"

\* `${aspectRatio}/${videoId}.mp4`
orientationKey(aspectRatio, videoId) == aspectRatio \o "/" \o videoId \o ".mp4"

\* `https://${cfg.s3Bucket}.s3.${cfg.s3Region}.amazonaws.com/${key}`
videoUrl(key) == <<"https://", "s3Bucket", ".s3.", "s3Region", ".amazonaws.com/", key>>

\* the key of the object a playback URL of the configured bucket names
KeyOfUrl(url) == url[6]

\* uploadVideoToS3 puts the file's current contents under exactly the key
uploadVideoToS3(store, key, body) == Write(store, key, body)

----------------------------------------------------------------------------
(* Requests *)

\* proc.exited of a child process that has not exited, or of no process
NotExited == -1

Idle ==
  [kind |-> "none", pc |-> "idle", videoId |-> NoId, userID |-> Null, video |-> NoVideo,
   size |-> 0, dims |-> NoStream, aspect |-> Null, key |-> Null, sent |-> NoBody,
   mediaType |-> "", err |-> "none", msg |-> "", ran |-> <<>>,
   child |-> "none", exited |-> NotExited, stdout |-> NoStream]

Set(r, new) == req' = [req EXCEPT ![r] = new]

\* as Throw, with the error caught and logged: the handler goes on
ThrowCaught(q, err, msg) == [q EXCEPT !.err = err, !.msg = msg]

\* the handler throws: the request ends with that error
Throw(q, err, msg) == [q EXCEPT !.pc = "done", !.err = err, !.msg = msg]

\* one more effectful step of the request has run
Ran(q, stage) == [q EXCEPT !.ran = Append(@, stage)]

\* Bun.spawn([tool, ...]): the request has a running child process
Spawn(q, tool) == [q EXCEPT !.child = tool, !.exited = NotExited, !.stdout = NoStream]

\* as Awaited, with the pipes and proc.exited not awaited
AwaitedNever(q) == TRUE

\* await new Response(proc.stderr).text(); await proc.exited: the handler
\* resumes once the child process has exited
Awaited(q) == q.exited # NotExited

\* the route parameters a new request may carry: the stored ids are
\* interchangeable, so an id is used only once those before it have been
FreshIds ==
  {v \in VideoIdParams :
     v = "v2" => \E s \in Req : req[s].videoId = "v1"}

NoGeometry == [width |-> 0, height |-> 0, aspect |-> Null]

Init ==
  /\ cfg \in [video : {"random", "orient"}, thumb : {"disk", "memory"}]
  /\ db = [v \in Videos |-> [userID |-> OwnerOf(v), videoURL |-> NoUrl, thumbnailURL |-> NoUrl]]
  /\ tmp = << >>
  /\ s3 = << >>
  /\ req = [r \in Req |-> Idle]
  /\ nRandom = 0
  /\ assets = << >>
  /\ videoThumbnails = << >>
  /\ geometry = NoGeometry

----------------------------------------------------------------------------
(* handlerUploadVideo *)

\* as VideoStartStep, with the ownership check left out
VideoStartStepNoOwnerCheck(q, videoId, token) ==
  IF videoId = NoId THEN Throw(q, "BadRequestError", "Invalid video ID")
  ELSE IF token = BadToken THEN Throw(q, "UserNotAuthenticatedError", "Invalid token")
  ELSE IF getVideo(db, videoId) = NoVideo THEN Throw(q, "NotFoundError", "Video not found")
  ELSE [q EXCEPT !.pc = "form", !.userID = token, !.video = getVideo(db, videoId)]

\* from the call to `await req.formData()`
VideoStartStep(q, videoId, token) ==
  IF videoId = NoId THEN Throw(q, "BadRequestError", "Invalid video ID")
  ELSE IF token = BadToken THEN Throw(q, "UserNotAuthenticatedError", "Invalid token")
  ELSE IF getVideo(db, videoId) = NoVideo THEN Throw(q, "NotFoundError", "Video not found")
  ELSE IF getVideo(db, videoId).userID # token
    THEN Throw([q EXCEPT !.userID = token], "UserForbiddenError",
               "Forbidden access to the video")
  ELSE [q EXCEPT !.pc = "form", !.userID = token, !.video = getVideo(db, videoId)]

VideoStart(r) ==
  /\ req[r].pc = "idle"
  /\ \A s \in Req : s < r => req[s].pc # "idle"
  /\ \E videoId \in FreshIds, token \in Tokens :
       Set(r, VideoStartStep([Idle EXCEPT !.kind = "video", !.videoId = videoId],
                             videoId, token))
  /\ UNCHANGED <<cfg, db, tmp, s3, nRandom, assets, videoThumbnails, geometry>>

\* as TooLarge, with >= for >
TooLargeOrEqual(size) == size >= MAX_UPLOAD_SIZE

\* videoFile.size > MAX_UPLOAD_SIZE
TooLarge(size) == size > MAX_UPLOAD_SIZE

\* as VideoValidateStep, with the media-type rejection thrown as a plain Error
VideoValidateStepTypeError(q, file, policy, n) ==
  IF ~file.isFile THEN Throw(q, "BadRequestError", "Video file missing")
  ELSE IF TooLarge(file.size)
    THEN Throw([q EXCEPT !.size = file.size], "BadRequestError",
               "Video file exceeds the maximum allowed size of 1GB")
  ELSE IF file.type # "video/mp4"
    THEN Throw([q EXCEPT !.size = file.size, !.mediaType = file.type], "Error",
               "Invalid file type. Only MP4 allowed.")
  ELSE [q EXCEPT !.pc = "staging", !.size = file.size, !.dims = file.dims,
                 !.mediaType = file.type,
                 !.key = IF policy = "random" THEN randomKey(n, file.type) ELSE Null]

\* from the form data to the call of Bun.write
VideoValidateStep(q, file, policy, n) ==
  IF ~file.isFile THEN Throw(q, "BadRequestError", "Video file missing")
  ELSE IF TooLarge(file.size)
    THEN Throw([q EXCEPT !.size = file.size], "BadRequestError",
               "Video file exceeds the maximum allowed size of 1GB")
  ELSE IF file.type # "video/mp4"
    THEN Throw([q EXCEPT !.size = file.size, !.mediaType = file.type], "BadRequestError",
               "Invalid file type. Only MP4 allowed.")
  ELSE [q EXCEPT !.pc = "staging", !.size = file.size, !.dims = file.dims,
                 !.mediaType = file.type,
                 !.key = IF policy = "random" THEN randomKey(n, file.type) ELSE Null]

VideoValidate(r) ==
  /\ req[r].kind = "video" /\ req[r].pc = "form"
  /\ \E file \in VideoFiles :
       LET q == VideoValidateStep(req[r], file, cfg.video, nRandom + 1)
       IN  /\ Set(r, q)
           /\ nRandom' = IF q.pc = "staging" /\ cfg.video = "random"
                           THEN nRandom + 1 ELSE nRandom
  /\ UNCHANGED <<cfg, db, tmp, s3, assets, videoThumbnails, geometry>>

\* await Bun.write(tempFilePath, videoFile): the file is written, or the write
\* fails and leaves nothing new or a truncated file; after the write the
\* orientation variant spawns ffprobe
Stage(r) ==
  /\ req[r].kind = "video" /\ req[r].pc = "staging"
  /\ LET path == tempFilePath(req[r].videoId)
     IN \/ /\ tmp' = Write(tmp, path, Raw(r))
           /\ Set(r, IF cfg.video = "orient"
                       THEN Spawn(Ran([req[r] EXCEPT !.pc = "probe"], "stage"), "ffprobe")
                       ELSE Ran([req[r] EXCEPT !.pc = "upload"], "stage"))
        \/ /\ tmp' \in {tmp, Write(tmp, path, Partial(r))}
           /\ Set(r, Throw(Ran(req[r], "stage"), "Error", "write failed"))
  /\ UNCHANGED <<cfg, db, s3, nRandom, assets, videoThumbnails, geometry>>

\* the classification of every geometry the model's files have, computed once
aspectOf == [d \in Dims |-> getVideoAspectRatio(d[1], d[2])]

\* a file a media tool can read: present and complete
Readable(fs, path) == Exists(fs, path) /\ fs[path].form # "partial"

\* the ffprobe child process runs and exits: non-zero (always when it cannot
\* read the file), or zero with the streams of the file now at the path on
\* its standard output
ProbeExit(r) ==
  /\ req[r].kind = "video" /\ req[r].pc = "probe"
  /\ req[r].child = "ffprobe" /\ req[r].exited = NotExited
  /\ LET path == tempFilePath(req[r].videoId)
     IN \/ Set(r, [req[r] EXCEPT !.exited = 1])
        \/ /\ Readable(tmp, path)
           /\ Set(r, [req[r] EXCEPT !.exited = 0, !.stdout = req[tmp[path].of].dims])
  /\ UNCHANGED <<cfg, db, tmp, s3, nRandom, assets, videoThumbnails, geometry>>

\* getVideoAspectRatio after its awaits: the exit status and the streams are
\* checked and the geometry classified; then processVideoForFastStart spawns
\* ffmpeg
Probe(r) ==
  /\ req[r].kind = "video" /\ req[r].pc = "probe"
  /\ Awaited(req[r])
  /\ LET q == Ran(req[r], "probe")
     IN IF q.exited # 0 THEN Set(r, Throw(q, "Error", "ffprobe error"))
        ELSE IF q.stdout = NoStream
          THEN Set(r, Throw(q, "Error", "No video streams found"))
        ELSE Set(r, Spawn([q EXCEPT !.pc = "rewrite", !.aspect = aspectOf[q.stdout]],
                          "ffmpeg"))
  /\ UNCHANGED <<cfg, db, tmp, s3, nRandom, assets, videoThumbnails, geometry>>

\* the ffmpeg child process runs and exits: non-zero (always when it cannot
\* read the input), leaving no output or a truncated one, or zero after
\* writing the fast-start copy of the file now at the input path
RewriteExit(r) ==
  /\ req[r].kind = "video" /\ req[r].pc = "rewrite"
  /\ req[r].child = "ffmpeg" /\ req[r].exited = NotExited
  /\ LET inputFilePath == tempFilePath(req[r].videoId)
         out == outputFilePath(inputFilePath)
     IN \/ /\ tmp' \in {tmp, Write(tmp, out, Partial(r))}
           /\ Set(r, [req[r] EXCEPT !.exited = 1])
        \/ /\ Readable(tmp, inputFilePath)
           /\ tmp' = Write(tmp, out, FastStart(tmp[inputFilePath]))
           /\ Set(r, [req[r] EXCEPT !.exited = 0])
  /\ UNCHANGED <<cfg, db, s3, nRandom, assets, videoThumbnails, geometry>>

\* processVideoForFastStart after its awaits: the exit status is checked, the
\* key is derived and the upload begins
processVideoForFastStart(r) ==
  /\ req[r].kind = "video" /\ req[r].pc = "rewrite"
  /\ Awaited(req[r])
  /\ LET q == Ran(req[r], "rewrite")
     IN IF q.exited # 0 THEN Set(r, Throw(q, "Error", "FFmpeg error"))
        ELSE Set(r, [q EXCEPT !.pc = "upload",
                              !.key = orientationKey(q.aspect, q.videoId)])
  /\ UNCHANGED <<cfg, db, tmp, s3, nRandom, assets, videoThumbnails, geometry>>

\* the file handlerUploadVideo hands to uploadVideoToS3
uploadedPath(policy, videoId) ==
  IF policy = "orient" THEN outputFilePath(tempFilePath(videoId))
  ELSE tempFilePath(videoId)

\* as Upload, with a failed upload not thrown: the handler goes on to commit
UploadNotAwaited(r) ==
  /\ req[r].kind = "video" /\ req[r].pc = "upload"
  /\ LET path == uploadedPath(cfg.video, req[r].videoId)
         q == Ran(req[r], "upload")
     IN \/ /\ s3' = s3
           /\ Set(r, [q EXCEPT !.pc = "commit"])
        \/ /\ Exists(tmp, path)
           /\ s3' = uploadVideoToS3(s3, q.key, tmp[path])
           /\ Set(r, [q EXCEPT !.pc = "commit", !.sent = tmp[path]])
  /\ UNCHANGED <<cfg, db, tmp, nRandom, assets, videoThumbnails, geometry>>

\* await uploadVideoToS3(cfg, key, path, "video/mp4"): the object store holds
\* the file's contents under the key, or the call fails and holds nothing new
Upload(r) ==
  /\ req[r].kind = "video" /\ req[r].pc = "upload"
  /\ LET path == uploadedPath(cfg.video, req[r].videoId)
         q == Ran(req[r], "upload")
     IN \/ /\ s3' = s3
           /\ Set(r, Throw(q, "Error", "upload failed"))
        \/ /\ Exists(tmp, path)
           /\ s3' = uploadVideoToS3(s3, q.key, tmp[path])
           /\ Set(r, [q EXCEPT !.pc = "commit", !.sent = tmp[path]])
  /\ UNCHANGED <<cfg, db, tmp, nRandom, assets, videoThumbnails, geometry>>

\* as Commit, with the uploaded object deleted when updateVideo fails
CommitRollsBack(r) ==
  /\ req[r].kind = "video" /\ req[r].pc = "commit"
  /\ LET q == Ran([req[r] EXCEPT !.video.videoURL = videoUrl(req[r].key)], "commit")
     IN \/ /\ db' = db /\ s3' = Remove(s3, q.key)
           /\ Set(r, Throw(q, "Error", "update failed"))
        \/ /\ db' = updateVideo(db, q.videoId, q.video) /\ s3' = s3
           /\ Set(r, [q EXCEPT !.pc = "cleanup"])
  /\ UNCHANGED <<cfg, tmp, nRandom, assets, videoThumbnails, geometry>>

\* video.videoURL = videoUrl; updateVideo(cfg.db, video); then the removals start
Commit(r) ==
  /\ req[r].kind = "video" /\ req[r].pc = "commit"
  /\ LET q == Ran([req[r] EXCEPT !.video.videoURL = videoUrl(req[r].key)], "commit")
     IN \/ /\ db' = db
           /\ Set(r, Throw(q, "Error", "update failed"))
        \/ /\ db' = updateVideo(db, q.videoId, q.video)
           /\ Set(r, [q EXCEPT !.pc = "cleanup"])
  /\ UNCHANGED <<cfg, tmp, s3, nRandom, assets, videoThumbnails, geometry>>

\* as removedPaths, with the staged file of every video id removed
removedPathsEveryVideo(policy, videoId) == {tempFilePath(v) : v \in Videos}

\* the paths handlerUploadVideo removes
removedPaths(policy, videoId) ==
  IF policy = "orient"
    THEN {tempFilePath(videoId), removedProcessedPath(tempFilePath(videoId))}
    ELSE {tempFilePath(videoId)}

\* await Promise.all([rm(path, { force: true }), ...]): each removal deletes
\* its path if it is there, or fails; any failure rejects the await
Cleanup(r) ==
  /\ req[r].kind = "video" /\ req[r].pc = "cleanup"
  /\ \E failed \in SUBSET removedPaths(cfg.video, req[r].videoId) :
       /\ tmp' = [p \in DOMAIN tmp \ (removedPaths(cfg.video, req[r].videoId) \ failed)
                    |-> tmp[p]]
       /\ Set(r, IF failed = {}
                   THEN [Ran(req[r], "rm") EXCEPT !.pc = "done"]
                   ELSE Throw(Ran(req[r], "rm"), "Error", "rm failed"))
  /\ UNCHANGED <<cfg, db, s3, nRandom, assets, videoThumbnails, geometry>>

handlerUploadVideo(r) ==
  \/ VideoStart(r)
  \/ VideoValidate(r)
  \/ Stage(r)
  \/ ProbeExit(r)
  \/ Probe(r)
  \/ RewriteExit(r)
  \/ processVideoForFastStart(r)
  \/ Upload(r)
  \/ Commit(r)
  \/ Cleanup(r)

----------------------------------------------------------------------------
(* handlerUploadThumbnail *)

\* from the call to `await req.formData()`, in both variants
ThumbStartStep(q, videoId, token) ==
  IF videoId = NoId THEN Throw(q, "BadRequestError", "Invalid video ID")
  ELSE IF token = BadToken THEN Throw(q, "UserNotAuthenticatedError", "Invalid token")
  ELSE [q EXCEPT !.pc = "form", !.userID = token]

ThumbStart(r) ==
  /\ req[r].pc = "idle"
  /\ \A s \in Req : s < r => req[s].pc # "idle"
  /\ \E videoId \in FreshIds, token \in Tokens :
       Set(r, ThumbStartStep([Idle EXCEPT !.kind = "thumb", !.videoId = videoId],
                             videoId, token))
  /\ UNCHANGED <<cfg, db, tmp, s3, nRandom, assets, videoThumbnails, geometry>>

\* as ThumbOwnerStep, with the ownership check left out
ThumbOwnerStepNoOwnerCheck(q, userID) ==
  IF getVideo(db, q.videoId) = NoVideo THEN Throw(q, "NotFoundError", "Video not found")
  ELSE [q EXCEPT !.video = getVideo(db, q.videoId)]

\* the checks on the looked-up record, in both variants
ThumbOwnerStep(q, userID) ==
  IF getVideo(db, q.videoId) = NoVideo THEN Throw(q, "NotFoundError", "Video not found")
  ELSE IF getVideo(db, q.videoId).userID # userID
    THEN Throw(q, "UserForbiddenError", "Forbidden access to the video")
  ELSE [q EXCEPT !.video = getVideo(db, q.videoId)]

\* disk variant, from the form data to the call of Bun.write
ThumbValidateDiskStep(q, file) ==
  IF ~file.isFile THEN Throw(q, "BadRequestError", "Thumbnail file missing")
  ELSE IF file.size > MAX_THUMBNAIL_SIZE
    THEN Throw(q, "BadRequestError", "Thumbnail file exceeds the maximum allowed size of 10MB")
  ELSE IF file.type # "image/jpeg" /\ file.type # "image/png"
    THEN Throw(q, "BadRequestError", "Invalid file type. Only JPEG or PNG allowed.")
  ELSE LET o == ThumbOwnerStep(q, q.userID)
       IN  IF o.pc = "done" THEN o
           ELSE [o EXCEPT !.pc = "store", !.mediaType = file.type,
                          !.key = o.videoId \o mediaTypeToExt(file.type)]

\* memory variant, from the form data to `await thumbnail.arrayBuffer()`
ThumbValidateMemStep(q, file) ==
  IF ~file.isFile THEN Throw(q, "BadRequestError", "Thumbnail file missing")
  ELSE IF file.size > MAX_THUMBNAIL_SIZE
    THEN Throw(q, "BadRequestError", "Thumbnail file exceeds the maximum allowed size of 10MB")
  ELSE IF file.type = ""
    THEN Throw(q, "BadRequestError", "Missing Content-Type for thumbnail")
  ELSE [q EXCEPT !.pc = "store", !.mediaType = file.type]

ThumbValidate(r) ==
  /\ req[r].kind = "thumb" /\ req[r].pc = "form"
  /\ \E file \in ThumbnailFiles :
       Set(r, IF cfg.thumb = "disk" THEN ThumbValidateDiskStep(req[r], file)
              ELSE ThumbValidateMemStep(req[r], file))
  /\ UNCHANGED <<cfg, db, tmp, s3, nRandom, assets, videoThumbnails, geometry>>

\* disk variant: Bun.write(assetDiskPath, thumbnail) completes or fails, then
\* video.thumbnailURL = urlPath; updateVideo(cfg.db, video)
ThumbStoreDisk(r) ==
  /\ req[r].kind = "thumb" /\ req[r].pc = "store" /\ cfg.thumb = "disk"
  /\ LET q == Ran(req[r], "write")
         c == Ran([q EXCEPT !.video.thumbnailURL = getAssetUrl(q.key)], "commit")
     IN \/ /\ Set(r, Throw(q, "Error", "write failed"))
           /\ UNCHANGED <<assets, db>>
        \/ /\ assets' = Write(assets, getAssetDiskPath(q.key), [of |-> r, mediaType |-> q.mediaType])
           /\ \/ /\ db' = db
                 /\ Set(r, Throw(c, "Error", "update failed"))
              \/ /\ db' = updateVideo(db, c.videoId, c.video)
                 /\ Set(r, [c EXCEPT !.pc = "done"])
  /\ UNCHANGED <<cfg, tmp, s3, nRandom, videoThumbnails, geometry>>

\* memory variant, after the bytes are read: getVideo and its checks,
\* videoThumbnails.set, video.thumbnailURL = urlPath; updateVideo(cfg.db, video)
ThumbStoreMem(r) ==
  /\ req[r].kind = "thumb" /\ req[r].pc = "store" /\ cfg.thumb = "memory"
  /\ LET o == ThumbOwnerStep(req[r], req[r].userID)
         c == Ran(Ran([o EXCEPT !.video.thumbnailURL = getInMemoryURL(o.videoId)],
                      "write"), "commit")
     IN IF o.pc = "done"
          THEN Set(r, o) /\ UNCHANGED <<videoThumbnails, db>>
          ELSE /\ videoThumbnails' =
                    Write(videoThumbnails, o.videoId, [of |-> r, mediaType |-> o.mediaType])
               /\ \/ /\ db' = db
                     /\ Set(r, Throw(c, "Error", "update failed"))
                  \/ /\ db' = updateVideo(db, c.videoId, c.video)
                     /\ Set(r, [c EXCEPT !.pc = "done"])
  /\ UNCHANGED <<cfg, tmp, s3, nRandom, assets, geometry>>

handlerUploadThumbnail(r) ==
  \/ ThumbStart(r)
  \/ ThumbValidate(r)
  \/ ThumbStoreDisk(r)
  \/ ThumbStoreMem(r)

----------------------------------------------------------------------------
(* handlerGetThumbnail (memory variant) *)

\* the response body made of a stored thumbnail's data
Body(thumbnail) == [of |-> thumbnail.of, form |-> "thumbnail"]

\* the whole handler: it has no await
GetThumbnailStep(q, videoId) ==
  IF videoId = NoId THEN Throw(q, "BadRequestError", "Invalid video ID")
  ELSE IF getVideo(db, videoId) = NoVideo
    THEN Throw(q, "NotFoundError", "Couldn't find video")
  ELSE IF ~Exists(videoThumbnails, videoId)
    THEN Throw(q, "NotFoundError", "Thumbnail not found")
  ELSE [q EXCEPT !.pc = "done", !.sent = Body(videoThumbnails[videoId]),
                 !.mediaType = videoThumbnails[videoId].mediaType]

handlerGetThumbnail(r) ==
  /\ cfg.thumb = "memory"
  /\ req[r].pc = "idle"
  /\ \A s \in Req : s < r => req[s].pc # "idle"
  /\ \E videoId \in FreshIds :
       Set(r, GetThumbnailStep([Idle EXCEPT !.kind = "get", !.videoId = videoId], videoId))
  /\ UNCHANGED <<cfg, db, tmp, s3, nRandom, assets, videoThumbnails, geometry>>

----------------------------------------------------------------------------

Next ==
  \E r \in Req :
    handlerUploadVideo(r) \/ handlerUploadThumbnail(r) \/ handlerGetThumbnail(r)

Spec == Init /\ [][Next]_vars

----------------------------------------------------------------------------
(* getVideoAspectRatio on its own: the classification of every probed       *)
(* geometry of the grid below                                               *)

\* probed widths run from 1 to MaxWidth
MaxWidth == 170
\* probed heights
Heights == {9, 16, 80, 90, 160}

AspectInit ==
  /\ cfg = [video |-> "orient", thumb |-> "disk"]
  /\ db = << >> /\ tmp = << >> /\ s3 = << >> /\ req = << >> /\ nRandom = 0
  /\ assets = << >> /\ videoThumbnails = << >>
  /\ geometry \in [width : 1..MaxWidth, height : Heights, aspect : {Null}]

\* lines 98-104: the classification of the probed width and height
Classify ==
  /\ geometry.aspect = Null
  /\ geometry' = [geometry EXCEPT !.aspect = getVideoAspectRatio(geometry.width, geometry.height)]
  /\ UNCHANGED <<cfg, db, tmp, s3, req, nRandom, assets, videoThumbnails>>

AspectSpec == AspectInit /\ [][Classify]_vars

----------------------------------------------------------------------------
(* Properties *)

VideoReq == {r \in Req : req[r].kind = "video"}

\* stage s is among the steps request r has run
HasRun(r, s) == \E i \in 1..Len(req[r].ran) : req[r].ran[i] = s

\* request r has called updateVideo and the call returned
Committed(r) ==
  /\ req[r].kind = "video" /\ HasRun(r, "commit") /\ req[r].msg # "update failed"

\* request r has called uploadVideoToS3 and the call returned
Uploaded(r) == req[r].kind = "video" /\ req[r].sent # NoBody

\* the object a playback URL serves, NoBody when there is none
ObjectAt(store, url) ==
  IF KeyOfUrl(url) \in DOMAIN store THEN store[KeyOfUrl(url)] ELSE NoBody

\* C1: a request calls updateVideo only after its own upload has returned
\* success, the URL it writes embeds exactly the key of that upload, and every
\* playback URL in the record store names an object that exists.
C1_UrlOnlyAfterUpload ==
  /\ \A r \in VideoReq :
       HasRun(r, "commit") =>
         /\ Uploaded(r)
         /\ \E i, j \in 1..Len(req[r].ran) :
              i < j /\ req[r].ran[i] = "upload" /\ req[r].ran[j] = "commit"
         /\ req[r].video.videoURL = videoUrl(req[r].key)
         /\ KeyOfUrl(req[r].video.videoURL) = req[r].key
         /\ req[r].key \in DOMAIN s3
  /\ \A v \in Videos :
       db[v].videoURL # NoUrl => ObjectAt(s3, db[v].videoURL) # NoBody

C1_Witness ==
  \E r \in VideoReq :
    /\ Committed(r)
    /\ db[req[r].videoId].videoURL = videoUrl(req[r].key)
    /\ ObjectAt(s3, db[req[r].videoId].videoURL) = req[r].sent

\* the files and objects in the stores that request r wrote
Leftovers(r) == {p \in DOMAIN tmp : tmp[p].of = r}

\* C2: once handlerUploadVideo has returned or thrown, no file the request
\* staged or rewrote remains in the temporary filesystem.
C2_NoTempFileAfterReturn ==
  \A r \in VideoReq : req[r].pc = "done" => Leftovers(r) = {}

ClientErrors == {"BadRequestError", "UserForbiddenError", "NotFoundError"}

\* request r has created no temp file, run no tool, uploaded and stored nothing
NoEffects(r) ==
  /\ req[r].ran = << >>
  /\ Leftovers(r) = {}
  /\ \A k \in DOMAIN s3 : s3[k].of # r

C3_Inv ==
  \A r \in VideoReq :
    /\ req[r].err \in ClientErrors => req[r].pc = "done" /\ NoEffects(r)
    /\ (req[r].userID # Null /\ req[r].userID # OwnerOf(req[r].videoId)) =>
         req[r].err = "UserForbiddenError" /\ req[r].pc = "done" /\ NoEffects(r)

C3_Step ==
  \A r \in Req :
    (req[r].kind # "thumb" /\ req'[r].kind = "video"
       /\ req[r].err = "none" /\ req'[r].err \in ClientErrors)
      => UNCHANGED <<db, tmp, s3, assets, videoThumbnails>>

\* C3: a video upload rejected with BadRequest, Forbidden or NotFound, and every
\* upload by an authenticated non-owner, ends before any temp file is written:
\* it runs no probe, rewrite, upload or record update, and the step that
\* rejects it changes no store.
C3_RejectedBeforeAnyEffect == [](C3_Inv) /\ [][C3_Step]_vars

C3_Witness ==
  \E r, s \in VideoReq :
    /\ req[r].err = "UserForbiddenError" /\ req[r].userID = "u2"
    /\ req[r].videoId = "v1" /\ req[r].pc = "done"
    /\ req[s].videoId = "v1" /\ Committed(s)

\* request r takes this step from position a to position b
Moves(r, a, b) == req[r].pc = a /\ req'[r].pc = b

\* C4 as claimed: the bytes served at a playback URL stored in a record never
\* change in a step (a commit changes no object, so none changes before one).
C4_StoredUrlBytesNeverChange ==
  [][\A v \in Videos :
       db[v].videoURL # NoUrl =>
         ObjectAt(s3', db[v].videoURL) = ObjectAt(s3, db[v].videoURL)]_vars

C4_Step ==
  /\ \A r \in Req :
       (req'[r].kind = "video" /\ req'[r] # req[r] /\ db' # db) =>
         Moves(r, "commit", "cleanup")
  /\ \A v \in Videos :
       (db[v].videoURL # NoUrl
          /\ ObjectAt(s3', db[v].videoURL) # ObjectAt(s3, db[v].videoURL)) =>
         /\ cfg.video = "orient"
         /\ \E r \in VideoReq :
              /\ Moves(r, "upload", "commit")
              /\ req[r].videoId = v
              /\ req[r].key = KeyOfUrl(db[v].videoURL)
              /\ req[r].key = orientationKey(req[r].aspect, v)

\* C4, amended: a video request changes the record store only in its commit
\* step; under the random-key policy the bytes at a stored playback URL never
\* change, and under the orientation-prefixed policy they change only in the
\* upload step of an ingestion of the same video id with the same
\* classification, which reuses the key, before that ingestion commits.
C4_BytesChangeOnlyByReupload == [][C4_Step]_vars

C4_Witness ==
  \E r, s \in VideoReq :
    /\ r # s /\ cfg.video = "orient"
    /\ Committed(s) /\ db[req[s].videoId].videoURL = videoUrl(req[s].key)
    /\ req[r].pc = "commit" /\ req[r].videoId = req[s].videoId
    /\ req[r].key = req[s].key
    /\ ObjectAt(s3, db[req[s].videoId].videoURL) = req[r].sent
    /\ req[r].sent # req[s].sent

\* C5 as claimed: no two uploads with different contents go to the object
\* store under the same key.
C5_KeyNeverReused ==
  \A r, s \in VideoReq :
    (Uploaded(r) /\ Uploaded(s) /\ req[r].key = req[s].key) =>
      req[r].sent = req[s].sent

\* C5, amended: two ingestion requests upload under the same key only under
\* the orientation-prefixed policy, and only when they are for the same video
\* id and their files are classified the same; under the random-key policy
\* every request uploads under a key of its own.
C5_KeySharedOnlyBySameVideoAndClass ==
  \A r, s \in VideoReq :
    (r # s /\ HasRun(r, "upload") /\ HasRun(s, "upload") /\ req[r].key = req[s].key) =>
      /\ cfg.video = "orient"
      /\ req[r].videoId = req[s].videoId
      /\ req[r].aspect = req[s].aspect

C5_Witness ==
  \E r, s \in VideoReq :
    /\ r # s /\ cfg.video = "orient"
    /\ Uploaded(r) /\ Uploaded(s)
    /\ req[r].key = req[s].key
    /\ req[r].sent # req[s].sent

TooLargeMsg == "Video file exceeds the maximum allowed size of 1GB"

\* C6: a video file is rejected by the size check, with BadRequest and before
\* any temp file is written, exactly when its size exceeds 2^30 bytes: a file of
\* 2^30 + 1 bytes is rejected, a file of 2^30 bytes of type video/mp4 is staged.
C6_SizeLimit ==
  \A r \in VideoReq :
    /\ req[r].size > 2^30 =>
         /\ req[r].pc = "done" /\ req[r].err = "BadRequestError"
         /\ req[r].msg = TooLargeMsg /\ NoEffects(r)
    /\ req[r].msg = TooLargeMsg => req[r].size > 2^30
    /\ (req[r].size # 0 /\ req[r].size <= 2^30 /\ req[r].err # "BadRequestError") =>
         req[r].pc # "form" /\ (req[r].pc = "staging" \/ HasRun(r, "stage"))

C6_Witness ==
  \E r, s \in VideoReq :
    /\ req[r].size = 2^30 /\ HasRun(r, "stage") /\ Leftovers(r) # {}
    /\ req[s].size = 2^30 + 1 /\ req[s].msg = TooLargeMsg /\ req[s].pc = "done"

Abs(x) == IF x < 0 THEN -x ELSE x

\* the classification by the exact ratio width / height:
\* |w/h - 16/9| < 1/10 iff 10 |9w - 16h| < 9h, and likewise for 9/16
ExactAspect(w, h) ==
  IF 10 * Abs(9 * w - 16 * h) < 9 * h THEN "landscape"
  ELSE IF 10 * Abs(16 * w - 9 * h) < 16 * h THEN "portrait"
  ELSE "other"

\* C7: getVideoAspectRatio returns landscape iff |width/height - 16/9| < 0.1,
\* otherwise portrait iff |width/height - 9/16| < 0.1, otherwise other; a ratio
\* exactly 0.1 away from 16/9 or 9/16 is classified other.
C7_ClassifiesByExactRatio ==
  geometry.aspect # Null =>
    geometry.aspect = ExactAspect(geometry.width, geometry.height)

\* C8: when handlerUploadVideo returns its 200 response, the record store holds
\* a non-null playback URL for that video id, and the record in the response
\* body carries the URL this request committed.
C8_SuccessMeansStoredUrl ==
  [][\A r \in Req :
       (req'[r].kind = "video" /\ Moves(r, "cleanup", "done") /\ req'[r].err = "none") =>
         /\ db'[req[r].videoId].videoURL # NoUrl
         /\ req'[r].video.videoURL = videoUrl(req[r].key)]_vars

\* the steps a request has run when it fails at the probe, rewrite or upload
StepsUpTo(stage) ==
  CASE stage = "probe" -> <<"stage", "probe">>
    [] stage = "rewrite" -> <<"stage", "probe", "rewrite">>
    [] stage = "upload" ->
         IF cfg.video = "orient" THEN <<"stage", "probe", "rewrite", "upload">>
         ELSE <<"stage", "upload">>

\* the stage a failure message comes from, Null for the others
FailedStage(msg) ==
  CASE msg \in {"ffprobe error", "No video streams found"} -> "probe"
    [] msg = "FFmpeg error" -> "rewrite"
    [] msg = "upload failed" -> "upload"
    [] OTHER -> Null

C9_Inv ==
  /\ \A r \in VideoReq :
       FailedStage(req[r].msg) # Null =>
         /\ req[r].pc = "done" /\ req[r].err = "Error"
         /\ req[r].ran = StepsUpTo(FailedStage(req[r].msg))
  /\ \A v \in Videos :
       db[v].videoURL # NoUrl =>
         \E s \in VideoReq :
           Committed(s) /\ req[s].videoId = v /\ db[v].videoURL = videoUrl(req[s].key)

C9_Step ==
  \A r \in Req :
    (req'[r].kind = "video" /\ req'[r] # req[r] /\ FailedStage(req'[r].msg) # Null)
      => db' = db

\* C9: an ingestion whose probe, rewrite or upload fails ends at that stage: it
\* has run each earlier stage once and no later one, it never calls
\* updateVideo, the failing step leaves the record store as it was, and a
\* record's playback URL is non-null only if an ingestion of that video has
\* committed it.
C9_FailureAborts == [](C9_Inv) /\ [][C9_Step]_vars

C9_Witness ==
  \E r, s \in VideoReq :
    /\ r # s /\ req[r].videoId = req[s].videoId
    /\ Committed(s) /\ db[req[s].videoId].videoURL = videoUrl(req[s].key)
    /\ req[r].msg = "upload failed" /\ req[r].pc = "done"
    /\ req[r].key # req[s].key

\* C10: a failed removal of a temporary file is never surfaced: a request whose
\* upload and commit succeeded ends with the 200 response.
C10_CleanupFailureSwallowed ==
  \A r \in VideoReq :
    (Committed(r) /\ req[r].pc = "done") => req[r].err = "none"

\* the error classes of the responses that are not client errors
ServerErrors == {"Error"}

\* C11: handlerUploadVideo rejects with the class of the first check that
\* fails: a missing video id with BadRequest; an unknown id, when the token is
\* valid, with NotFound; an authenticated non-owner with Forbidden; a missing or
\* non-file video field, a size above 2^30 or a media type other than video/mp4
\* with BadRequest; and a probe, rewrite, upload or commit failure with a
\* plain Error, never a client error.
C11_ErrorClasses ==
  /\ \A r \in VideoReq :
       /\ req[r].videoId = NoId => req[r].err = "BadRequestError"
       /\ (req[r].videoId \notin Videos \cup {NoId}
             /\ req[r].err # "UserNotAuthenticatedError") =>
            req[r].err = "NotFoundError"
       /\ (req[r].userID # Null /\ req[r].userID # OwnerOf(req[r].videoId)) =>
            req[r].err = "UserForbiddenError"
       /\ req[r].size > 2^30 => req[r].err = "BadRequestError"
       /\ req[r].mediaType \notin {"", "video/mp4"} => req[r].err = "BadRequestError"
       /\ (FailedStage(req[r].msg) # Null \/ req[r].msg = "update failed") =>
            req[r].err \in ServerErrors
       /\ (HasRun(r, "stage") /\ req[r].err # "none") => req[r].err \in ServerErrors
  /\ \A videoId \in VideoIdParams, token \in Tokens \ {BadToken} :
       LET q == VideoStartStep([Idle EXCEPT !.kind = "video", !.videoId = videoId],
                               videoId, token)
       IN  q.err = IF videoId = NoId THEN "BadRequestError"
                   ELSE IF videoId \notin DOMAIN db THEN "NotFoundError"
                   ELSE IF db[videoId].userID # token THEN "UserForbiddenError"
                   ELSE "none"
  /\ \A file \in VideoFiles :
       LET q == VideoValidateStep([Idle EXCEPT !.kind = "video", !.pc = "form"],
                                  file, cfg.video, nRandom + 1)
       IN  q.err = IF ~file.isFile \/ file.size > 2^30 \/ file.type # "video/mp4"
                     THEN "BadRequestError" ELSE "none"

C11_Witness ==
  \E r, s \in VideoReq :
    /\ req[r].mediaType = "video/quicktime" /\ req[r].err = "BadRequestError"
    /\ req[r].pc = "done"
    /\ req[s].msg = "update failed" /\ req[s].err = "Error" /\ req[s].pc = "done"

\* the local paths an ingestion of video id v reads, writes or removes
PathsOf(v) ==
  {tempFilePath(v), outputFilePath(tempFilePath(v)),
   removedProcessedPath(tempFilePath(v))}

\* the video id of the request whose upload the contents c come from
VideoOf(c) == req[c.of].videoId

\* request r is the only ingestion of its video id
Alone(r) == \A s \in VideoReq : s # r => req[s].videoId # req[r].videoId

C12_Inv ==
  /\ \A v, w \in Videos : v # w => PathsOf(v) \cap PathsOf(w) = {}
  /\ \A p \in DOMAIN tmp : p \in PathsOf(VideoOf(tmp[p]))
  /\ \A r \in VideoReq :
       /\ Uploaded(r) => VideoOf(req[r].sent) = req[r].videoId
       /\ (Alone(r) /\ Uploaded(r)) => req[r].sent.of = r
       /\ (Alone(r) /\ req[r].aspect # Null) => req[r].aspect = aspectOf[req[r].dims]
       /\ Alone(r) => \A p \in PathsOf(req[r].videoId) \cap DOMAIN tmp : tmp[p].of = r

C12_Step ==
  /\ \A p \in DOMAIN tmp \ DOMAIN tmp' :
       \E r \in VideoReq : req[r].pc = "cleanup" /\ req'[r] # req[r]
                            /\ VideoOf(tmp[p]) = req[r].videoId
  /\ \A p \in DOMAIN tmp \cap DOMAIN tmp' :
       tmp'[p] # tmp[p] => req'[tmp'[p].of].videoId = VideoOf(tmp[p])
  /\ \A r \in VideoReq :
       (req[r].exited = NotExited /\ req'[r].exited = 0) =>
         /\ Exists(tmp, tempFilePath(req[r].videoId))
         /\ VideoOf(tmp[tempFilePath(req[r].videoId)]) = req[r].videoId
         /\ req[r].child = "ffprobe" =>
              req'[r].stdout = req[tmp[tempFilePath(req[r].videoId)].of].dims

\* C12: ingestions of different video ids use disjoint local paths: every
\* temporary file lies at a path of the video id of the request that staged
\* it, a request probes, rewrites and uploads only bytes staged for its own
\* video id (its own bytes when it is the only ingestion of that id), and a
\* step overwrites or removes only files of the acting request's video id.
C12_DifferentIdsNeverShareTempPath == [](C12_Inv) /\ [][C12_Step]_vars

C12_Witness ==
  \E r, s \in VideoReq :
    /\ req[r].videoId = "v1" /\ req[s].videoId = "v2"
    /\ req[r].pc = "cleanup" /\ req[r].sent.of = r
    /\ req[s].pc = "commit" /\ req[s].sent.of = s
    /\ Leftovers(r) # {} /\ Leftovers(s) # {}

\* request r is between the staging of its file and the last step that reads
\* the staged file
NeedsStaged(r) ==
  \/ req[r].pc \in {"probe", "rewrite"}
  \/ req[r].pc = "upload" /\ cfg.video = "random"

\* C13: the staging path is shared by the ingestions of one video id and by no
\* others: a request uploads bytes staged by another request, or finds its
\* staged file gone while it still needs it, only when the other request is a
\* concurrent ingestion of the same video id (which has staged over the file,
\* or has run its cleanup); the witness is an interleaving where both happen.
C13_InterferenceOnlyWithinOneVideo ==
  \A r \in VideoReq :
    /\ (Uploaded(r) /\ req[r].sent.of # r) =>
         /\ req[r].sent.of \in VideoReq
         /\ req[req[r].sent.of].videoId = req[r].videoId
         /\ HasRun(req[r].sent.of, "stage") /\ HasRun(r, "stage")
    /\ (NeedsStaged(r) /\ ~Exists(tmp, tempFilePath(req[r].videoId))) =>
         \E s \in VideoReq :
           s # r /\ req[s].videoId = req[r].videoId /\ HasRun(s, "rm")

C13_Witness ==
  \E r, s \in VideoReq :
    /\ r # s /\ req[r].videoId = req[s].videoId
    /\ Committed(r) /\ req[r].sent.of = s
    /\ db[req[r].videoId].videoURL = videoUrl(req[r].key)
    /\ ObjectAt(s3, db[req[r].videoId].videoURL).of = s
    /\ HasRun(r, "rm") /\ req[r].pc = "done"
    /\ NeedsStaged(s) /\ ~Exists(tmp, tempFilePath(req[s].videoId))

\* C14: every request that has uploaded has run its probe and its rewrite
\* before, and what it sent to the object store is a fast-start artifact,
\* never the raw staged upload.
C14_UploadsRewrittenArtifact ==
  \A r \in VideoReq :
    HasRun(r, "upload") =>
      /\ HasRun(r, "probe") /\ HasRun(r, "rewrite")
      /\ Uploaded(r) => req[r].sent.form = "faststart"

\* the steps of one ingestion, in the order the handler of the configured
\* variant runs them
StepOrder ==
  IF cfg.video = "orient" THEN <<"stage", "probe", "rewrite", "upload", "commit", "rm">>
  ELSE <<"stage", "upload", "commit", "rm">>

\* the steps a request at position pc has completed
StepsBefore(pc) ==
  CASE pc \in {"idle", "form", "staging"} -> << >>
    [] pc = "probe" -> <<"stage">>
    [] pc = "rewrite" -> <<"stage", "probe">>
    [] pc = "upload" -> IF cfg.video = "orient" THEN <<"stage", "probe", "rewrite">>
                        ELSE <<"stage">>
    [] pc = "commit" -> SubSeq(StepOrder, 1, Len(StepOrder) - 2)
    [] pc = "cleanup" -> SubSeq(StepOrder, 1, Len(StepOrder) - 1)

C15_Inv ==
  \A r \in VideoReq :
    /\ Len(req[r].ran) <= Len(StepOrder)
    /\ req[r].ran = SubSeq(StepOrder, 1, Len(req[r].ran))
    /\ req[r].pc # "done" => req[r].ran = StepsBefore(req[r].pc)
    /\ req[r].pc = "probe" => req[r].child = "ffprobe"
    /\ req[r].pc = "rewrite" => req[r].child = "ffmpeg"
    /\ HasRun(r, "probe") =>
         req[r].child = "ffmpeg" \/ (req[r].child = "ffprobe" /\ req[r].exited # NotExited)
    /\ HasRun(r, "rewrite") => req[r].child = "ffmpeg" /\ req[r].exited # NotExited
    /\ HasRun(r, "upload") /\ cfg.video = "orient" => req[r].exited = 0
    /\ req[r].pc = "done" => req[r].child = "none" \/ req[r].exited # NotExited

C15_Step ==
  \A r \in Req :
    /\ (req[r].child = "ffprobe" /\ req'[r].child = "ffmpeg") => req[r].exited = 0
    /\ (req[r].child # "none" /\ req[r].exited = NotExited /\ req'[r] # req[r]) =>
         req'[r].exited # NotExited /\ req'[r].pc = req[r].pc /\ req'[r].ran = req[r].ran

\* C15: a request has run a prefix of staging, probe, rewrite, upload, commit,
\* removal (the random-key variant has no probe or rewrite), each step once and
\* after the one before it completed; while a child process of the request is
\* running the request takes no step but that process's exit, ffmpeg is
\* spawned only after ffprobe has exited with status 0, and a request that has
\* returned or thrown has no running child process, whatever the exit status.
C15_StepsOrderedAndProcessesAwaited == [](C15_Inv) /\ [][C15_Step]_vars

C15_Witness ==
  \E r, s \in VideoReq :
    /\ req[r].pc = "done" /\ req[r].msg = "FFmpeg error"
    /\ req[r].child = "ffmpeg" /\ req[r].exited = 1
    /\ req[s].pc = "cleanup" /\ req[s].child = "ffmpeg" /\ req[s].exited = 0
    /\ req[s].ran = <<"stage", "probe", "rewrite", "upload", "commit">>

\* C16: the path processVideoForFastStart wrote its output to is among the
\* paths the handler removes, so once an ingestion has returned its 200
\* response no file exists at the rewriter's output path.
C16_RewrittenArtifactRemoved ==
  \A r \in VideoReq :
    (cfg.video = "orient" /\ req[r].pc = "done" /\ req[r].err = "none") =>
      /\ outputFilePath(tempFilePath(req[r].videoId))
           \in removedPaths(cfg.video, req[r].videoId)
      /\ ~Exists(tmp, outputFilePath(tempFilePath(req[r].videoId)))

\* the commit of request r has failed
CommitFailed(q) == q.kind = "video" /\ q.msg = "update failed"

\* C17 as claimed: after a failed commit the request has ended with an Error
\* and the object it uploaded is still the object at its key.
C17_OrphanIsOwnUpload ==
  \A r \in VideoReq :
    CommitFailed(req[r]) =>
      /\ req[r].pc = "done" /\ req[r].err = "Error"
      /\ ObjectAt(s3, videoUrl(req[r].key)) = req[r].sent

C17_Inv ==
  \A r \in VideoReq :
    CommitFailed(req[r]) =>
      /\ req[r].pc = "done" /\ req[r].err = "Error"
      /\ Uploaded(r) /\ req[r].key \in DOMAIN s3
      /\ req[r].ran = StepsBefore("cleanup")
      /\ db[req[r].videoId].videoURL = videoUrl(req[r].key) =>
           \E s \in VideoReq : s # r /\ Committed(s) /\ req[s].key = req[r].key
      /\ ObjectAt(s3, videoUrl(req[r].key)) # req[r].sent =>
           /\ cfg.video = "orient"
           /\ \E s \in VideoReq :
                /\ s # r /\ Uploaded(s) /\ req[s].videoId = req[r].videoId
                /\ req[s].key = req[r].key
                /\ ObjectAt(s3, videoUrl(req[r].key)) = req[s].sent

C17_Step ==
  /\ DOMAIN s3 \subseteq DOMAIN s3'
  /\ \A r \in Req :
       (~CommitFailed(req[r]) /\ CommitFailed(req'[r])) => db' = db /\ s3' = s3

\* C17, amended: when updateVideo fails after the upload, the request ends
\* with an Error at the commit step, having run each step up to it once (no
\* retry, no removal); the failing step leaves the record store and the
\* object store as they were, no object is ever deleted, and a record names
\* the request's key only if another request committed it.  The object at the
\* key is the one the request uploaded, unless, under the orientation-prefixed
\* policy, another ingestion of the same video id uploaded under the same key.
C17_CommitFailureLeavesOrphan == [](C17_Inv) /\ [][C17_Step]_vars

C17_Witness ==
  \E r \in VideoReq :
    /\ CommitFailed(req[r]) /\ req[r].pc = "done"
    /\ db[req[r].videoId].videoURL = NoUrl
    /\ req[r].key \in DOMAIN s3 /\ req[r].sent # NoBody
    /\ ObjectAt(s3, videoUrl(req[r].key)) # req[r].sent

ThumbReq == {r \in Req : req[r].kind = "thumb"}

\* thumbnail upload t has called updateVideo and the call returned
ThumbCommitted(t) ==
  /\ req[t].kind = "thumb" /\ HasRun(t, "commit") /\ req[t].msg # "update failed"

\* C18: once a video upload and a thumbnail upload for the same video id have
\* both committed, the stored record carries a playback URL and a thumbnail
\* URL: neither write-back erases the other handler's field.
C18_BothUrlsSurvive ==
  \A r \in VideoReq, t \in ThumbReq :
    (Committed(r) /\ ThumbCommitted(t) /\ req[r].videoId = req[t].videoId) =>
      /\ db[req[r].videoId].videoURL # NoUrl
      /\ db[req[r].videoId].thumbnailURL # NoUrl

\* the entries of the thumbnail stores that thumbnail upload t wrote
ThumbWrites(t) ==
  {p \in DOMAIN assets : assets[p].of = t}
    \cup {v \in DOMAIN videoThumbnails : videoThumbnails[v].of = t}

C19_Inv ==
  \A t \in ThumbReq :
    /\ req[t].err \in {"NotFoundError", "UserForbiddenError"} =>
         req[t].pc = "done" /\ req[t].ran = << >> /\ ThumbWrites(t) = {}
    /\ (req[t].userID # Null
          /\ (req[t].videoId \notin Videos \/ req[t].userID # OwnerOf(req[t].videoId))) =>
         req[t].ran = << >> /\ ThumbWrites(t) = {}
    /\ (HasRun(t, "write") \/ ThumbWrites(t) # {}) =>
         /\ req[t].videoId \in Videos
         /\ req[t].userID = OwnerOf(req[t].videoId)
         /\ req[t].video.userID = req[t].userID

C19_Step ==
  \A t \in Req :
    (req'[t].kind = "thumb" /\ req[t].err = "none"
       /\ req'[t].err \in {"NotFoundError", "UserForbiddenError"})
      => UNCHANGED <<db, assets, videoThumbnails, tmp, s3>>

\* C19: a thumbnail upload for a video id that does not exist, or by an
\* authenticated caller who is not the owner, ends with NotFound or Forbidden
\* having written nothing: the rejecting step leaves the thumbnail map, the
\* asset files and the record store as they were, and every write to a
\* thumbnail store is by a request that has passed both checks.
C19_RejectedThumbnailWritesNothing == [](C19_Inv) /\ [][C19_Step]_vars

C19_Witness ==
  \E t, u \in ThumbReq :
    /\ req[t].videoId = "v1" /\ req[t].userID = "u2"
    /\ req[t].err = "UserForbiddenError" /\ req[t].pc = "done"
    /\ req[u].videoId = "v1" /\ ThumbCommitted(u) /\ ThumbWrites(u) # {}
    /\ db["v1"].thumbnailURL # NoUrl

\* the thumbnail uploads for video id v that have returned their 200 response
SucceededUploads(v) ==
  {t \in ThumbReq : ThumbCommitted(t) /\ req[t].pc = "done" /\ req[t].videoId = v}

C20_Step ==
  \A g \in Req :
    (req[g].pc = "idle" /\ req'[g].kind = "get" /\ req'[g].videoId \in Videos) =>
      IF SucceededUploads(req'[g].videoId) = {}
        THEN req'[g].err = "NotFoundError"
        ELSE \E t \in SucceededUploads(req'[g].videoId) :
               /\ req'[g].err = "none"
               /\ req'[g].sent.of = t
               /\ req'[g].mediaType = req[t].mediaType

\* C20: in the memory variant handlerGetThumbnail, for an existing video id,
\* answers NotFound when no thumbnail upload for that id has succeeded, and
\* otherwise the bytes and media type of a successful upload for that id.
C20_GetReturnsSuccessfulUpload == [][C20_Step]_vars

====
